---- MODULE Spec2Model ----
(***************************************************************************)
(* hexo-renderer-mdx: the MDX renderer with dependency tracking, the       *)
(* persisted component-path index, the chokidar component watcher and the  *)
(* rebuild handler (handleComponentChange).                                *)
(*                                                                         *)
(* Paths that the handler normalises and compares are sequences of         *)
(* one-character strings, so that path.resolve, startsWith and the         *)
(* separator are computed character by character.                          *)
(***************************************************************************)
EXTENDS Integers, Sequences, FiniteSets, TLC

\* ------------------------------------------------------------------ bounds
MaxImports == 2      \* dynamic-import calls of one render
MaxRenders == 2      \* renders the host starts in one run
MaxChanges == 2      \* filesystem events on the components directory in one run
MaxKeys == 2         \* keys of a component-path mapping handed to the matcher
MaxTokens == 8       \* tokens of a document text handed to the front-matter strip

\* ------------------------------------------------------------- basic values
Sep == "/"
NoPath == <<>>                                 \* fsPath left undefined
NoAttr == <<>>                                 \* an absent attribute or tag
NoFile == [exists |-> FALSE, text |-> <<>>]    \* fs.existsSync is false
NullMapping == [isNull |-> TRUE, obj |-> <<>>] \* let mapping = null

Range(s) == {s[i] : i \in 1..Len(s)}

NoDup(s) == \A i, j \in 1..Len(s) : s[i] = s[j] => i = j

\* MDX documents the host renders (data.path)
DocA == "/blog/source/_posts/a.mdx"
DocB == "/blog/source/_posts/b.mdx"
Docs == {DocA, DocB}

\* crypto.createHash('md5').update(filePath).digest('hex').slice(0, 8)
fileHash(filePath) ==
  CASE filePath = DocA -> "74e13213"
    [] filePath = DocB -> "8bc8f3da"
    [] OTHER -> "00000000"

\* ------------------------------------------------------------------- paths
Cwd == <<"/", "w">>
PathC == <<"/", "c">>                   \* the components directory (sourceDir)
PathCSlash == <<"/", "c", "/">>         \* the same directory, trailing separator
PathCA == <<"/", "c", "/", "a">>        \* a component file
PathCB == <<"/", "c", "/", "b">>        \* another component file
PathCa == <<"/", "c", "a">>             \* a sibling sharing the prefix "/c"

\* String.prototype.startsWith
StartsWith(s, prefix) ==
  Len(prefix) <= Len(s) /\ SubSeq(s, 1, Len(prefix)) = prefix

\* String.prototype.split(path.sep)
RECURSIVE SplitSep(_, _, _)
SplitSep(s, i, cur) ==
  IF i > Len(s) THEN <<cur>>
  ELSE IF s[i] = Sep THEN <<cur>> \o SplitSep(s, i + 1, <<>>)
  ELSE SplitSep(s, i + 1, Append(cur, s[i]))

\* Array.prototype.join(path.sep)
RECURSIVE JoinSep(_)
JoinSep(segs) ==
  IF segs = <<>> THEN <<>>
  ELSE IF Len(segs) = 1 THEN segs[1]
  ELSE segs[1] \o <<Sep>> \o JoinSep(Tail(segs))

\* the segment walk of path.resolve: empty and "." segments are dropped,
\* ".." removes the segment before it
RECURSIVE ResolveSegs(_, _)
ResolveSegs(segs, acc) ==
  IF segs = <<>> THEN acc
  ELSE LET h == Head(segs) IN
    IF h = <<>> \/ h = <<".">> THEN ResolveSegs(Tail(segs), acc)
    ELSE IF h = <<".", ".">>
      THEN ResolveSegs(Tail(segs),
                       IF acc = <<>> THEN acc ELSE SubSeq(acc, 1, Len(acc) - 1))
    ELSE ResolveSegs(Tail(segs), Append(acc, h))

\* path.resolve(p): absolute, no trailing separator, no empty segment
PathResolve(p) ==
  LET abs == IF p # <<>> /\ p[1] = Sep THEN p ELSE Cwd \o <<Sep>> \o p
  IN <<Sep>> \o JoinSep(ResolveSegs(SplitSep(abs, 1, <<>>), <<>>))

\* const normalize = p => path.resolve(p).split(path.sep).join(path.sep)
normalize(p) == JoinSep(SplitSep(PathResolve(p), 1, <<>>))

\* a plausible slip of PathMatches: the prefix tests without the separator
PathMatchesNoSep(normalizedChanged, normalizedComp) ==
  \/ normalizedChanged = normalizedComp
  \/ StartsWith(normalizedChanged, normalizedComp)
  \/ StartsWith(normalizedComp, normalizedChanged)

\* the three-way test of handleComponentChange
PathMatches(normalizedChanged, normalizedComp) ==
  \/ normalizedChanged = normalizedComp
  \/ StartsWith(normalizedChanged, normalizedComp \o <<Sep>>)
  \/ StartsWith(normalizedComp, normalizedChanged \o <<Sep>>)

\* a value of the parsed object that is not an array (a JSON string, number or
\* object), kept as a one-element tuple of its text
NonArrayValue == <<"\"x\"">>

\* whether arr.forEach exists
IsArray(v) == v # NonArrayValue

\* arr.forEach(m => { if (m && affectedMdxFiles.indexOf(m) === -1) push(m) })
RECURSIVE PushUnique(_, _)
PushUnique(acc, arr) ==
  IF arr = <<>> THEN acc
  ELSE PushUnique(IF Head(arr) # "" /\ Head(arr) \notin Range(acc)
                    THEN Append(acc, Head(arr)) ELSE acc,
                  Tail(arr))

\* Object.keys(mapping).forEach(compPath => ...), keys in insertion order
RECURSIVE AffectedFrom(_, _, _)
AffectedFrom(entries, normalizedChanged, acc) ==
  IF entries = <<>> THEN acc
  ELSE LET e == Head(entries) IN
    AffectedFrom(Tail(entries), normalizedChanged,
                 IF PathMatches(normalizedChanged, normalize(e.key))
                   THEN PushUnique(acc, e.arr) ELSE acc)

\* a plausible slip: a guard the code does not have, non-arrays skipped
MatcherThrowsGuarded(mapping, changedPath) == FALSE

\* arr.forEach is not a function: a matched key holds a value that is no array,
\* the TypeError leaves handleComponentChange before process.nextTick
MatcherThrows(mapping, changedPath) ==
  /\ ~mapping.isNull
  /\ \E i \in 1..Len(mapping.obj) :
       /\ PathMatches(normalize(changedPath), normalize(mapping.obj[i].key))
       /\ ~IsArray(mapping.obj[i].arr)

\* let affectedMdxFiles = []; if (mapping) { ... }
affectedMdxFiles(mapping, changedPath) ==
  IF mapping.isNull THEN <<>>
  ELSE AffectedFrom(mapping.obj, normalize(changedPath), <<>>)


\* ------------------------------------------------------------------- state
VARIABLES
  cmd,                    \* hexo.env.cmd
  lifecycle,              \* "init" (plugin loaded), "run" (after_init fired), "exit"
  componentDependencies,  \* Map component path -> Set of MDX files, insertion order
  publicJson,             \* <public_dir>/hexo-renderer-mdx.component-path.json
  rootJson,               \* <base_dir>/hexo-renderer-mdx.component-path.json
  entryFiles,             \* hashes h with <public_dir>/.hexo-mdx-entry/mdx-entry-h.mjs
  assets,                 \* hashes h with <public_dir>/assets/mdx-hydrate-h.js
  render,                 \* per document: the mdxRendererWithTracking call in flight
  nRenders,               \* renders started so far
  watchers,               \* every chokidar watcher created so far
  mdxComponentWatcher,    \* index into watchers of the module-level variable, 0 = null
  rebuilds,               \* every handleComponentChange invocation so far
  missed                  \* a file changed unheard by the handler and no rebuild started since

vars == <<cmd, lifecycle, componentDependencies, publicJson, rootJson, entryFiles,
          assets, render, nRenders, watchers, mdxComponentWatcher, rebuilds, missed>>

renderVars == <<componentDependencies, publicJson, entryFiles, assets, render, nRenders>>
watchVars == <<watchers, mdxComponentWatcher, rebuilds, missed>>

\* ------------------------------------------------------- import specifiers
SpecFileUrl == "file:///c/a"        \* asString.startsWith('file://')
SpecRelative == "../../../c/b"      \* resolved against pathToFileURL(filePath)
SpecRemote == "https://cdn.example/x.js"   \* resolvedUrl.protocol is not 'file:'
Specifiers == {SpecFileUrl, SpecRelative, SpecRemote}

\* the import(...) calls of the documents the host may hand over, in call order
Contents ==
  {c \in {<<>>, <<SpecRelative>>, <<SpecRemote>>, <<SpecFileUrl, SpecRelative>>,
          <<SpecRemote, SpecFileUrl, SpecFileUrl>>} : Len(c) <= MaxImports}

\* dynamicImport: the filesystem path of a specifier, NoPath when none is found
fsPathOf(asString) ==
  CASE asString = SpecFileUrl -> PathCA
    [] asString = SpecRelative -> PathCB
    [] OTHER -> NoPath

\* a plausible slip: the sequence number taken before the push, from 0
placeholderIdZeroBased(filePath, componentsForHydration) ==
  <<"mdx-cmp", fileHash(filePath), Len(componentsForHydration)>>

\* `mdx-cmp-${fileHash}-${componentsForHydration.length + 1}`
placeholderId(filePath, componentsForHydration) ==
  <<"mdx-cmp", fileHash(filePath), Len(componentsForHydration) + 1>>

\* a plausible slip: an array push where the code uses a Set
SetAddAlways(set, x) == Append(set, x)

\* Set.prototype.add on an insertion-ordered set
SetAdd(set, x) == IF x \in Range(set) THEN set ELSE Append(set, x)

\* renderToString of the evaluated document: one placeholder div per import
serverMarkup(componentsForHydration) ==
  [i \in 1..Len(componentsForHydration) |->
     [tag |-> "div", dataMdxComponent |-> componentsForHydration[i].id]]

\* a plausible slip: one bundle name for every document
outNameShared(hash) == <<"mdx-hydrate-", "entry", ".js">>

\* `mdx-hydrate-${hash}.js`
outName(hash) == <<"mdx-hydrate-", hash, ".js">>

\* let finalHtml = html
plainHtml(html) == [kind |-> "html", root |-> NoAttr, markup |-> html, script |-> NoAttr]

\* `<div id="mdx-root-${hash}">${html}</div><script type="module" src="/assets/${outName}">`
hydratedHtml(hash, html) ==
  [kind |-> "html", root |-> <<"mdx-root-", hash>>, markup |-> html,
   script |-> <<"/assets/", outName(hash)>>]

\* a plausible slip: the inner error rethrown as it is
renderErrorBare(filePath) == [kind |-> "error", message |-> <<"MDX compilation failed">>]

\* throw new Error(`MDX compilation failed for ${filePath}: ${err.message}`)
renderError(filePath) == [kind |-> "error", message |-> <<"MDX compilation failed for ", filePath>>]

NoResult == [kind |-> "none"]

IdleRender ==
  [pc |-> "idle", text |-> <<>>, source |-> <<>>, content |-> <<>>,
   componentsForHydration |-> <<>>, dependencies |-> <<>>,
   hydration |-> "none", result |-> NoResult]

\* ------------------------------------------------------------ front matter
\* document texts are sequences of one-character strings
Nl == "\n"
Dashes == <<"-", "-", "-">>

\* \s over the characters of the model
IsSpace(c) == c \in {" ", Nl}

AllSpace(s, a, b) == \A k \in a..b : IsSpace(s[k])

Max(S) == CHOOSE x \in S : \A y \in S : y <= x
Min(S) == CHOOSE x \in S : \A y \in S : x <= y

\* ^---\s*\n : the positions at which the opening part can end
OpenEnds(s) ==
  IF Len(s) >= 4 /\ SubSeq(s, 1, 3) = Dashes
    THEN {e \in 4..Len(s) : s[e] = Nl /\ AllSpace(s, 4, e - 1)}
    ELSE {}

\* \n---\s*\n starting at j: the positions at which it can end
CloseEnds(s, j) ==
  IF j + 4 <= Len(s) /\ s[j] = Nl /\ SubSeq(s, j + 1, j + 3) = Dashes
    THEN {f \in (j + 4)..Len(s) : s[f] = Nl /\ AllSpace(s, j + 4, f - 1)}
    ELSE {}

\* ([\s\S]*?) : where the closing part can start once the opening ended at e
CloseStarts(s, e) == {j \in (e + 1)..Len(s) : CloseEnds(s, j) # {}}

\* match[0].length for /^---\s*\n([\s\S]*?)\n---\s*\n/, 0 when match is null:
\* the greedy \s* of the opening is tried longest first, the lazy group
\* shortest first, the greedy \s* of the closing longest first
MatchLength(s) ==
  LET es == {e \in OpenEnds(s) : CloseStarts(s, e) # {}} IN
  IF es = {} THEN 0
  ELSE Max(CloseEnds(s, Min(CloseStarts(s, Max(es)))))

\* a plausible slip: the text compiled as it was read
StripFrontMatterNever(content) == content

\* if (match) content = content.slice(match[0].length)
StripFrontMatter(content) ==
  IF MatchLength(content) = 0 THEN content
  ELSE SubSeq(content, MatchLength(content) + 1, Len(content))

\* the text of the documents of a run: front matter, a blank line, a body
PostText ==
  Dashes \o <<Nl, "a", Nl>> \o Dashes \o <<Nl, Nl, "a", Nl>>
FileTexts == {PostText}

\* what the hydration try block can meet: esbuild missing, mkdirSync/writeFileSync
\* of the entry throwing, buildSync throwing, or none of these
HydrationOutcomes == {"ok", "no_esbuild", "write_failed", "build_failed"}

\* a plausible slip: hydrate whatever the number of components
NeedsHydrationAlways(componentsForHydration) == Len(componentsForHydration) >= 0

\* if (componentsForHydration.length > 0)
NeedsHydration(componentsForHydration) == Len(componentsForHydration) > 0

\* fs.writeFileSync(entryPath, entrySource) is reached once esbuild is loaded
\* and the entry directory made
EntryWritten(outcome) == outcome \in {"ok", "build_failed"}

\* esbuild.buildSync is called once the entry is written
BundlerInvoked(outcome) == outcome \in {"ok", "build_failed"}

\* a plausible slip: finalHtml assigned before the bundle is built
finalHtmlEager(filePath, html, outcome) == hydratedHtml(fileHash(filePath), html)

\* finalHtml after the hydration try/catch
finalHtml(filePath, html, outcome) ==
  IF outcome = "ok" THEN hydratedHtml(fileHash(filePath), html) ELSE plainHtml(html)

\* JSON.stringify(obj) with obj[compPath] = Array.from(mdxSet): the file text,
\* one <<key, array>> pair per Map entry
JsonStringify(index) ==
  [i \in 1..Len(index) |-> <<index[i].comp, index[i].mdx>>]

\* JSON.parse(text): the object, one property per pair
JsonParse(text) ==
  [i \in 1..Len(text) |-> [key |-> text[i][1], arr |-> text[i][2]]]

\* position of compPath in the Map, 0 when componentDependencies.has is false
MapIndex(index, compPath) ==
  IF \E i \in 1..Len(index) : index[i].comp = compPath
    THEN CHOOSE i \in 1..Len(index) : index[i].comp = compPath
    ELSE 0

\* a plausible slip: the set of a component replaced instead of extended
RecordOneLossy(index, compPath, mdxPath) ==
  LET i == MapIndex(index, compPath) IN
  IF i = 0 THEN Append(index, [comp |-> compPath, mdx |-> <<mdxPath>>])
  ELSE [index EXCEPT ![i].mdx = <<mdxPath>>]

\* if (!has(componentPath)) set(componentPath, new Set()); get(componentPath).add(data.path)
RecordOne(index, compPath, mdxPath) ==
  LET i == MapIndex(index, compPath) IN
  IF i = 0 THEN Append(index, [comp |-> compPath, mdx |-> SetAdd(<<>>, mdxPath)])
  ELSE [index EXCEPT ![i].mdx = SetAdd(@, mdxPath)]

\* data.dependencies.forEach(componentPath => ...)
RECURSIVE RecordAll(_, _, _)
RecordAll(index, dependencies, mdxPath) ==
  IF dependencies = <<>> THEN index
  ELSE RecordAll(RecordOne(index, Head(dependencies), mdxPath), Tail(dependencies), mdxPath)

\* a plausible slip: the catch branch of the save, every array left empty
saveComponentPathJsonEmpty(index) ==
  [exists |-> TRUE, text |-> [i \in 1..Len(index) |-> <<index[i].comp, <<>>>>]]

\* fs.writeFileSync(publicOut, JSON.stringify(obj, null, 2), 'utf8')
saveComponentPathJson(index) == [exists |-> TRUE, text |-> JsonStringify(index)]

\* ---------------------------------------------------------------- renderer
\* the host calls mdxRendererWithTracking(data) with a fresh data object
RenderStart(d) ==
  /\ lifecycle = "run"
  /\ render[d].pc = "idle"
  /\ nRenders < MaxRenders
  /\ \E content \in Contents, text \in FileTexts :
       render' = [render EXCEPT ![d] =
                    [IdleRender EXCEPT !.pc = "compile", !.text = text, !.content = content]]
  /\ nRenders' = nRenders + 1
  /\ UNCHANGED <<cmd, lifecycle, componentDependencies, publicJson, rootJson,
                 entryFiles, assets, watchVars>>

\* ensureBabelRegister, await loadCompile(), the front-matter strip,
\* await compile(content, ...)
RenderCompile(d) ==
  /\ render[d].pc = "compile"
  /\ \E compiled \in BOOLEAN :
       render' = [render EXCEPT ![d] =
         IF compiled THEN [@ EXCEPT !.pc = "eval", !.source = StripFrontMatter(render[d].text)]
         ELSE [@ EXCEPT !.pc = "failed", !.source = StripFrontMatter(render[d].text),
                        !.result = renderError(d)]]
  /\ UNCHANGED <<cmd, lifecycle, componentDependencies, publicJson, rootJson,
                 entryFiles, assets, nRenders, watchVars>>

\* a plausible slip: the raw specifier registered when no path was found
AddDependencyRaw(dependencies, fsPath, asString) ==
  SetAdd(dependencies, IF fsPath # NoPath THEN fsPath ELSE <<asString>>)

\* if (fsPath && data.dependencies) data.dependencies.add(fsPath)
AddDependency(dependencies, fsPath, asString) ==
  IF fsPath # NoPath THEN SetAdd(dependencies, fsPath) ELSE dependencies

\* one dynamicImport(specifier) call of the evaluated document
RenderImport(d) ==
  /\ render[d].pc = "eval"
  /\ Len(render[d].componentsForHydration) < Len(render[d].content)
  /\ LET r == render[d]
         asString == r.content[Len(r.componentsForHydration) + 1]
         fsPath == fsPathOf(asString)
     IN render' = [render EXCEPT ![d] =
            [r EXCEPT
               !.componentsForHydration =
                  Append(@, [id |-> placeholderId(d, r.componentsForHydration),
                             spec |-> IF fsPath # NoPath THEN fsPath ELSE <<asString>>]),
               !.dependencies = AddDependency(@, fsPath, asString)]]
  /\ UNCHANGED <<cmd, lifecycle, componentDependencies, publicJson, rootJson,
                 entryFiles, assets, nRenders, watchVars>>

\* the evaluation settles, renderToString, the hydration block, return finalHtml
RenderFinish(d) ==
  /\ render[d].pc = "eval"
  /\ Len(render[d].componentsForHydration) = Len(render[d].content)
  /\ \E evaluated \in BOOLEAN, outcome \in HydrationOutcomes :
       LET r == render[d]
           html == serverMarkup(r.componentsForHydration)
       IN
       IF ~evaluated THEN
         /\ outcome = "ok"
         /\ render' = [render EXCEPT ![d] = [r EXCEPT !.pc = "failed", !.result = renderError(d)]]
         /\ UNCHANGED <<entryFiles, assets>>
       ELSE IF NeedsHydration(r.componentsForHydration) THEN
         /\ render' = [render EXCEPT ![d] =
              [r EXCEPT !.pc = "returned", !.hydration = outcome,
                        !.result = finalHtml(d, html, outcome)]]
         /\ entryFiles' = IF EntryWritten(outcome) THEN entryFiles \cup {fileHash(d)} ELSE entryFiles
         /\ assets' = IF outcome = "ok" THEN assets \cup {fileHash(d)} ELSE assets
       ELSE
         /\ outcome = "ok"
         /\ render' = [render EXCEPT ![d] = [r EXCEPT !.pc = "returned", !.result = plainHtml(html)]]
         /\ UNCHANGED <<entryFiles, assets>>
  /\ UNCHANGED <<cmd, lifecycle, componentDependencies, publicJson, rootJson,
                 nRenders, watchVars>>

\* a plausible slip: the index saved after every render
ShouldPersistAlways(dependencies) == TRUE

\* if (data.dependencies && data.dependencies.size > 0)
ShouldPersist(dependencies) == Len(dependencies) > 0

\* mdxRendererWithTracking after `await originalMdxRenderer(data)`: record, then save
RenderTrack(d) ==
  /\ render[d].pc = "returned"
  /\ LET r == render[d]
         recorded == RecordAll(componentDependencies, r.dependencies, d)
     IN
     IF ShouldPersist(r.dependencies) THEN
       /\ componentDependencies' = recorded
       /\ publicJson' = saveComponentPathJson(recorded)
     ELSE UNCHANGED <<componentDependencies, publicJson>>
  /\ render' = [render EXCEPT ![d] = IdleRender]
  /\ UNCHANGED <<cmd, lifecycle, rootJson, entryFiles, assets, nRenders, watchVars>>

\* the promise of mdxRendererWithTracking rejects: nothing is recorded or saved
RenderRejected(d) ==
  /\ render[d].pc = "failed"
  /\ render' = [render EXCEPT ![d] = IdleRender]
  /\ UNCHANGED <<cmd, lifecycle, componentDependencies, publicJson, rootJson,
                 entryFiles, assets, nRenders, watchVars>>


\* ----------------------------------------------------- watcher and rebuild
\* paths chokidar reports for the watched components directory
ChangedPaths == {PathCA, PathCB}

\* ignored: /node_modules|\.git/ (after_init, targeted path) and
\* /node_modules|\\.git/ (fallback paths)
IgnoreDotGit == "node_modules|\\.git"
IgnoreBackslashGit == "node_modules|\\\\.git"

\* the character class of `.` in a regular expression
AnyChar == "ANY"

NodeModules == <<"n", "o", "d", "e", "_", "m", "o", "d", "u", "l", "e", "s">>

\* the alternatives of the regular expression given as `ignored`
Alternatives(ignored) ==
  CASE ignored = IgnoreDotGit -> {NodeModules, <<".", "g", "i", "t">>}
    [] ignored = IgnoreBackslashGit -> {NodeModules, <<"\\", AnyChar, "g", "i", "t">>}
    [] OTHER -> {}

\* ignored.test(path): some alternative matches somewhere in the path
IgnoredBy(ignored, path) ==
  \E alt \in Alternatives(ignored) :
    \E i \in 1..(Len(path) - Len(alt) + 1) :
      \A k \in 1..Len(alt) :
        \/ alt[k] = path[i + k - 1]
        \/ alt[k] = AnyChar /\ path[i + k - 1] \notin {"\n", "\r"}

\* files below the components directory: in the repository's metadata, in an
\* installed package
GitPath == PathC \o <<"/", ".", "g", "i", "t", "/", "a">>
PackagePath == PathC \o <<"/">> \o NodeModules \o <<"/", "a">>

\* chokidar.watch(sourceDir, {ignored, persistent: true}), then on('change', handler)
NewWatcher(ignored) == [open |-> TRUE, change |-> 1, ignored |-> ignored]

\* a closed watcher: no further events, listeners removed, options dropped
ClosedWatcher == [open |-> FALSE, change |-> 0, ignored |-> ""]

\* a plausible slip: close() without effect, the watcher keeps running
CloseWatcherNoop(ws, w) == ws

\* watcher.close()
CloseWatcher(ws, w) == IF w = 0 THEN ws ELSE [ws EXCEPT ![w] = ClosedWatcher]

\* a plausible slip: a failed clean or generate leaves the watcher closed
ResumeAfterErrorMissing(ws) == ws

\* the catch branch: chokidar.watch(...) and on('change', handleComponentChange)
ResumeAfterError(ws) == Append(ws, NewWatcher(IgnoreBackslashGit))

\* the then branch of the fallback path
ResumeAfterFull(ws) == Append(ws, NewWatcher(IgnoreBackslashGit))

\* the targeted path
ResumeAfterTargeted(ws) == Append(ws, NewWatcher(IgnoreDotGit))

\* a plausible slip: the handler leaves the watcher running
PauseWatcherSkipped(ws, w) == ws

\* a plausible slip: the handler detached, the watcher left open
PauseWatcherListenerOnly(ws, w) == IF w = 0 THEN ws ELSE [ws EXCEPT ![w].change = 0]

\* try { mdxComponentWatcher.close(); } catch (e) {}
PauseWatcher(ws, w) == CloseWatcher(ws, w)

\* file texts that are not a JSON object: one JSON.parse throws on, and the
\* text `null`, which parses to a falsy value
CorruptText == <<<<"{">>>>
NullText == <<<<"null">>>>

\* JSON.parse(...) throws
ParseThrows(text) == text = CorruptText

\* JSON.parse(fs.readFileSync(mappingPath, 'utf8')) || null
ParseOrNull(text) ==
  IF text = NullText THEN NullMapping ELSE [isNull |-> FALSE, obj |-> JsonParse(text)]

\* the for loop over mappingCandidates: the copy in public first, then the root;
\* a throw sets mapping = null and goes on to the next candidate, a parse breaks
LoadMapping(public, root) ==
  IF public.exists /\ ~ParseThrows(public.text) THEN ParseOrNull(public.text)
  ELSE IF root.exists /\ ~ParseThrows(root.text) THEN ParseOrNull(root.text)
  ELSE NullMapping

\* a plausible slip: the entries looked up by document path
HashesOfPath(affected) == Range(affected)

\* Array.from(new Set(affectedMdxFiles.map(f => md5(f).slice(0, 8))))
HashesOf(affected) == {fileHash(affected[i]) : i \in 1..Len(affected)}

\* hashes of the entry files a run can hold
AllHashes == {fileHash(d) : d \in Docs}

\* hashes.forEach(h => bundleEntryByHash(h)): a bundle per hash whose entry
\* exists and whose build does not throw (built); every call catches its own
\* error, and without esbuild none is built
BundleByHash(bundles, entries, hashes, built) ==
  bundles \cup (hashes \cap entries \cap built)

\* a plausible slip: every entry re-bundled whatever the affected documents
RebundleHashesEvery(affected) == AllHashes

\* the hashes a rebuild hands to bundleEntryByHash: on the targeted path the
\* affected list is not empty, on the fallback path the call is guarded by
\* if (affectedMdxFiles.length > 0)
RebundleHashes(affected) == IF Len(affected) > 0 THEN HashesOf(affected) ELSE {}

\* a rebuild record: one handleComponentChange invocation and its nextTick
\* callback; hashes are the arguments of its bundleEntryByHash calls
NewRebuild(changedPath, affected) ==
  [pc |-> "tick", changedPath |-> changedPath, affectedMdxFiles |-> affected,
   calls |-> 0, failed |-> FALSE, cleanCalled |-> FALSE, cleanOk |-> FALSE,
   fullCalled |-> FALSE, hashes |-> {}]

\* the callback has returned and its closure is gone
DoneRebuild == [NewRebuild(<<>>, <<>>) EXCEPT !.pc = "done"]

\* the callback has returned after hashes.forEach(h => bundleEntryByHash(h))
BundledRebuild(hashes) == [DoneRebuild EXCEPT !.hashes = hashes]

\* handleComponentChange threw before it scheduled the callback
ThrownRebuild(changedPath) == [NewRebuild(changedPath, <<>>) EXCEPT !.pc = "threw"]

ActiveRebuild(r) == r.pc \notin {"done", "threw"}

Rebuilding == \E i \in 1..Len(rebuilds) : ActiveRebuild(rebuilds[i])

OpenListeners == {w \in 1..Len(watchers) : watchers[w].open /\ watchers[w].change > 0}

\* the listening watchers that report a change of the path
Hearing(changedPath) ==
  {w \in OpenListeners : ~IgnoredBy(watchers[w].ignored, changedPath)}

\* hexo.env.cmd of the runs considered; NoCmd stands for a host without env
NoCmd == ""
Commands == {"server", "generate", "clean", NoCmd}

\* a plausible slip: the watcher set up whatever the command
WatchesAlways(c) == TRUE

\* the negation of: !hexo || !hexo.env || hexo.env.cmd !== 'server'
Watches(c) == c # NoCmd /\ c = "server"

\* after_init filter
AfterInit ==
  /\ lifecycle = "init"
  /\ lifecycle' = "run"
  /\ IF ~Watches(cmd) THEN UNCHANGED <<watchers, mdxComponentWatcher>>
     ELSE /\ watchers' = Append(CloseWatcher(watchers, mdxComponentWatcher),
                                NewWatcher(IgnoreDotGit))
          /\ mdxComponentWatcher' = Len(watchers) + 1
  /\ UNCHANGED <<cmd, rootJson, renderVars, rebuilds, missed>>

\* a plausible slip of the cleanup's target: the directory the renders write to
RmBaseEntryDirPublic(entries) == {}

\* fs.rmSync(path.join(hexo.base_dir, '.hexo-mdx-entry'), {recursive: true}): the
\* renders write below public_dir, which this call does not touch
RmBaseEntryDir(entries) == entries

\* a file of the components directory changes; an open watcher with a 'change'
\* listener runs handleComponentChange up to process.nextTick
FsChange(changedPath) ==
  /\ IF Hearing(changedPath) # {} THEN
       /\ Len(rebuilds) < MaxChanges
       /\ watchers' = PauseWatcher(watchers, mdxComponentWatcher)
       /\ LET mapping == LoadMapping(publicJson, rootJson) IN
          rebuilds' = Append(rebuilds,
            IF MatcherThrows(mapping, changedPath) THEN ThrownRebuild(changedPath)
            ELSE NewRebuild(changedPath, affectedMdxFiles(mapping, changedPath)))
       /\ entryFiles' = RmBaseEntryDir(entryFiles)
       /\ missed' = FALSE
     ELSE
       \* no watcher is listening while a generate is in flight: chokidar reports
       \* nothing and nothing is queued; the write lands before or after the
       \* generate has read the file, and only the later one goes unseen
       /\ \E i \in 1..Len(rebuilds) : rebuilds[i].pc \in {"targeted", "full"}
       /\ \E afterRead \in BOOLEAN : missed' = (missed \/ afterRead)
       /\ UNCHANGED <<watchers, rebuilds, entryFiles>>
  /\ UNCHANGED <<cmd, lifecycle, rootJson, componentDependencies, publicJson, assets,
                 render, nRenders, mdxComponentWatcher>>

\* a plausible slip: the targeted pass skipped, every change rebuilt in full
TargetedFirstNever(affected) == FALSE

\* if (affectedMdxFiles.length > 0)
TargetedFirst(affected) == Len(affected) > 0

\* process.nextTick(async () => { ... }): the first host call of the rebuild
RebuildTick(i) ==
  /\ rebuilds[i].pc = "tick"
  /\ rebuilds' = [rebuilds EXCEPT ![i] =
       IF TargetedFirst(@.affectedMdxFiles)
         THEN [@ EXCEPT !.pc = "targeted", !.calls = 1]
         ELSE [@ EXCEPT !.pc = "clean", !.cleanCalled = TRUE]]
  /\ UNCHANGED <<cmd, lifecycle, rootJson, renderVars, watchers, mdxComponentWatcher, missed>>

\* await hexo.call('generate', {watch: false, file: mdxFile}) settles
RebuildTargeted(i) ==
  /\ rebuilds[i].pc = "targeted"
  /\ \E generated \in BOOLEAN, built \in SUBSET AllHashes :
       LET r == rebuilds[i] IN
       IF ~generated THEN
         \* failed = true; break; then hexo.call('clean')
         /\ built = {}
         /\ rebuilds' = [rebuilds EXCEPT ![i] =
              [r EXCEPT !.pc = "clean", !.failed = TRUE, !.cleanCalled = TRUE]]
         /\ UNCHANGED <<assets, watchers, mdxComponentWatcher>>
       ELSE IF r.calls < Len(r.affectedMdxFiles) THEN
         /\ built = {}
         /\ rebuilds' = [rebuilds EXCEPT ![i] = [r EXCEPT !.calls = @ + 1]]
         /\ UNCHANGED <<assets, watchers, mdxComponentWatcher>>
       ELSE
         /\ assets' = BundleByHash(assets, entryFiles, RebundleHashes(r.affectedMdxFiles), built)
         /\ rebuilds' = [rebuilds EXCEPT ![i] = BundledRebuild(RebundleHashes(r.affectedMdxFiles))]
         /\ watchers' = ResumeAfterTargeted(watchers)
         /\ mdxComponentWatcher' = Len(watchers')
  /\ UNCHANGED <<cmd, lifecycle, rootJson, componentDependencies, publicJson,
                 entryFiles, render, nRenders, missed>>

\* hexo.call('clean') settles: the public directory is removed, then
\* hexo.call('generate', {watch: false}) is issued; a rejection goes to the catch
RebuildClean(i) ==
  /\ rebuilds[i].pc = "clean"
  /\ \E cleaned \in BOOLEAN :
       IF cleaned THEN
         /\ publicJson' = NoFile
         /\ entryFiles' = {}
         /\ assets' = {}
         /\ rebuilds' = [rebuilds EXCEPT ![i] =
              [@ EXCEPT !.pc = "full", !.cleanOk = TRUE, !.fullCalled = TRUE]]
         /\ UNCHANGED <<watchers, mdxComponentWatcher>>
       ELSE
         /\ rebuilds' = [rebuilds EXCEPT ![i] = DoneRebuild]
         /\ watchers' = ResumeAfterError(watchers)
         /\ mdxComponentWatcher' = Len(watchers')
         /\ UNCHANGED <<publicJson, entryFiles, assets>>
  /\ UNCHANGED <<cmd, lifecycle, rootJson, componentDependencies, render, nRenders, missed>>

\* the full generate settles: the then branch re-bundles the affected hashes,
\* the catch branch only logs; both resume the watcher
RebuildFull(i) ==
  /\ rebuilds[i].pc = "full"
  /\ \E generated \in BOOLEAN, built \in SUBSET AllHashes :
       LET r == rebuilds[i] IN
       IF generated THEN
         /\ assets' = BundleByHash(assets, entryFiles, RebundleHashes(r.affectedMdxFiles), built)
         /\ rebuilds' = [rebuilds EXCEPT ![i] = BundledRebuild(RebundleHashes(r.affectedMdxFiles))]
         /\ watchers' = ResumeAfterFull(watchers)
       ELSE
         /\ built = {}
         /\ UNCHANGED assets
         /\ rebuilds' = [rebuilds EXCEPT ![i] = DoneRebuild]
         /\ watchers' = ResumeAfterError(watchers)
  /\ mdxComponentWatcher' = Len(watchers')
  /\ UNCHANGED <<cmd, lifecycle, rootJson, componentDependencies, publicJson,
                 entryFiles, render, nRenders, missed>>

\* if (fs.existsSync(src)) fs.copyFileSync(src, dest)
CopyIfExists(src, dest) == IF src.exists THEN src ELSE dest

\* bundleEntryToPublic: every entry of the entry directory is built on its own,
\* a build that throws is skipped; without esbuild nothing is built
bundleEntryToPublic(bundles, entries, built) == bundles \cup (entries \cap built)

\* after_generate filter: the host has finished a generation
AfterGenerate ==
  /\ lifecycle = "run"
  /\ publicJson' = CopyIfExists(rootJson, publicJson)
  /\ \E built \in SUBSET {fileHash(d) : d \in Docs} :
       assets' = bundleEntryToPublic(assets, entryFiles, built)
  /\ UNCHANGED <<cmd, lifecycle, componentDependencies, rootJson, entryFiles, render,
                 nRenders, watchVars>>

\* hexo.on('exit')
Exit ==
  /\ lifecycle = "run"
  /\ lifecycle' = "exit"
  /\ watchers' = CloseWatcher(watchers, mdxComponentWatcher)
  /\ UNCHANGED <<cmd, rootJson, renderVars, mdxComponentWatcher, rebuilds, missed>>

\* ------------------------------------------------------------ specification
Init ==
  /\ cmd \in Commands
  /\ lifecycle = "init"
  /\ componentDependencies = <<>>
  /\ publicJson = NoFile
  /\ rootJson = NoFile
  /\ entryFiles = {}
  /\ assets = {}
  /\ render = [d \in Docs |-> IdleRender]
  /\ nRenders = 0
  /\ watchers = <<>>
  /\ mdxComponentWatcher = 0
  /\ rebuilds = <<>>
  /\ missed = FALSE

Next ==
  \/ AfterInit
  \/ \E d \in Docs : RenderStart(d)
  \/ \E d \in Docs : RenderCompile(d)
  \/ \E d \in Docs : RenderImport(d)
  \/ \E d \in Docs : RenderFinish(d)
  \/ \E d \in Docs : RenderTrack(d)
  \/ \E d \in Docs : RenderRejected(d)
  \/ \E p \in ChangedPaths : FsChange(p)
  \/ \E i \in 1..Len(rebuilds) : RebuildTick(i)
  \/ \E i \in 1..Len(rebuilds) : RebuildTargeted(i)
  \/ \E i \in 1..Len(rebuilds) : RebuildClean(i)
  \/ \E i \in 1..Len(rebuilds) : RebuildFull(i)
  \/ AfterGenerate
  \/ Exit

Spec == Init /\ [][Next]_vars

\* the continuations of a render and of a rebuild are promise callbacks of the
\* event loop: once one can run it does; the host and the filesystem owe nothing
RenderStep ==
  \E d \in Docs : RenderCompile(d) \/ RenderImport(d) \/ RenderFinish(d)
                     \/ RenderTrack(d) \/ RenderRejected(d)

RebuildStep ==
  \E i \in 1..Len(rebuilds) :
    RebuildTick(i) \/ RebuildTargeted(i) \/ RebuildClean(i) \/ RebuildFull(i)

FairSpec == Spec /\ WF_vars(RenderStep) /\ WF_vars(RebuildStep)

\* ------------------------------------------- the matcher on persisted indexes
\* component paths found as keys of a persisted index
KeyPaths == {PathC, PathCSlash, PathCA, PathCB, PathCa}

\* paths chokidar reports when it watches PathC
ProbePaths == {PathC, PathCA, PathCB}

\* Array.from of a non-empty Set of documents
DocArrays == {<<DocA>>, <<DocB>>, <<DocA, DocB>>, <<DocB, DocA>>}

\* texts of the index file: JSON objects with distinct keys, as
\* saveComponentPathJson writes them or with a value that is no array, and
\* texts that are no JSON object
MappingTexts ==
  UNION {{t \in [1..n -> KeyPaths \X (DocArrays \cup {NonArrayValue})] :
            \A i, j \in 1..n : t[i][1] = t[j][1] => i = j} : n \in 0..MaxKeys}
    \cup {CorruptText, NullText}

\* a copy of the index left in the project root by an earlier run
StaleRoot == [exists |-> TRUE, text |-> <<<<PathC, <<DocB>>>>>>]

\* a server run after after_init, the index files as earlier runs left them
InitAffected ==
  /\ cmd = "server"
  /\ lifecycle = "run"
  /\ componentDependencies = <<>>
  /\ publicJson \in {NoFile} \cup {[exists |-> TRUE, text |-> t] : t \in MappingTexts}
  /\ rootJson \in {NoFile, StaleRoot}
  /\ entryFiles = {}
  /\ assets = {}
  /\ render = [d \in Docs |-> IdleRender]
  /\ nRenders = 0
  /\ watchers = <<NewWatcher(IgnoreDotGit)>>
  /\ mdxComponentWatcher = 1
  /\ rebuilds = <<>>
  /\ missed = FALSE

NextAffected == \E p \in ProbePaths : FsChange(p)

SpecAffected == InitAffected /\ [][NextAffected]_vars

\* ------------------------------------------ every event chokidar reports
\* the events of a file the 'all' listener of after_init names
Events == {"change", "add", "unlink"}

\* chokidar reports an event of a file below the components directory: only
\* 'change' is bound to handleComponentChange; 'add' and 'unlink' reach the
\* 'all' listener of the first watcher, which logs them, and no listener of a
\* resumed watcher
FsEvent(event, changedPath) ==
  IF event = "change" THEN FsChange(changedPath)
  ELSE /\ Hearing(changedPath) # {}
       /\ missed' = TRUE
       /\ UNCHANGED <<cmd, lifecycle, rootJson, renderVars, watchers,
                      mdxComponentWatcher, rebuilds>>

NextEvents ==
  \/ \E event \in Events, p \in ChangedPaths : FsEvent(event, p)
  \/ \E i \in 1..Len(rebuilds) : RebuildTick(i)
  \/ \E i \in 1..Len(rebuilds) : RebuildTargeted(i)
  \/ \E i \in 1..Len(rebuilds) : RebuildClean(i)
  \/ \E i \in 1..Len(rebuilds) : RebuildFull(i)

SpecEvents == InitAffected /\ [][NextEvents]_vars

\* --------------------------------------------------- a run after a restart
\* the index an earlier process recorded and saved before it ended
EarlierIndex == <<[comp |-> PathCA, mdx |-> <<DocA>>]>>

\* a new process: `const componentDependencies = new Map()`, the files of the
\* earlier process still in the public directory
InitRestart ==
  /\ cmd \in Commands
  /\ lifecycle = "init"
  /\ componentDependencies = <<>>
  /\ publicJson = saveComponentPathJson(EarlierIndex)
  /\ rootJson = NoFile
  /\ entryFiles = {}
  /\ assets = {}
  /\ render = [d \in Docs |-> IdleRender]
  /\ nRenders = 0
  /\ watchers = <<>>
  /\ mdxComponentWatcher = 0
  /\ rebuilds = <<>>
  /\ missed = FALSE

\* the host loads the plugin, renders documents and finishes generations
NextRestart ==
  \/ AfterInit
  \/ \E d \in Docs : RenderStart(d)
  \/ \E d \in Docs : RenderCompile(d)
  \/ \E d \in Docs : RenderImport(d)
  \/ \E d \in Docs : RenderFinish(d)
  \/ \E d \in Docs : RenderTrack(d)
  \/ \E d \in Docs : RenderRejected(d)
  \/ AfterGenerate

SpecRestart == InitRestart /\ [][NextRestart]_vars
\* ------------------------------------------- the strip on arbitrary texts
\* what a text is made of: a run of three dashes, a newline, a space, a letter
Tokens == {Dashes, <<Nl>>, <<" ">>, <<"a">>}

RECURSIVE Flatten(_)
Flatten(ts) == IF ts = <<>> THEN <<>> ELSE Head(ts) \o Flatten(Tail(ts))

\* fs.readFileSync(filePath, 'utf8') of the documents handed over
TokenTexts(maxTokens) ==
  UNION {{Flatten(ts) : ts \in [1..n -> Tokens]} : n \in 0..maxTokens}

\* a generate run with one render about to strip and compile
InitFrontMatter ==
  /\ cmd = "generate"
  /\ lifecycle = "run"
  /\ componentDependencies = <<>>
  /\ publicJson = NoFile
  /\ rootJson = NoFile
  /\ entryFiles = {}
  /\ assets = {}
  /\ \E text \in TokenTexts(MaxTokens) :
       render = [d \in Docs |->
                   IF d = DocA THEN [IdleRender EXCEPT !.pc = "compile", !.text = text]
                   ELSE IdleRender]
  /\ nRenders = 1
  /\ watchers = <<>>
  /\ mdxComponentWatcher = 0
  /\ rebuilds = <<>>
  /\ missed = FALSE

NextFrontMatter == \E d \in Docs : RenderCompile(d)

SpecFrontMatter == InitFrontMatter /\ [][NextFrontMatter]_vars

\* ------------------------------------------------------------------ claims
\* documents recorded for a component in the in-memory index
IndexSet(index, compPath) ==
  IF MapIndex(index, compPath) = 0 THEN {}
  ELSE Range(index[MapIndex(index, compPath)].mdx)

IndexKeys(index) == {index[i].comp : i \in 1..Len(index)}

\* mdxRenderer of document d returns in this step
Returns(d) == render[d].pc = "eval" /\ render'[d].pc = "returned"

\* the nextTick callback of rebuild i returns in this step
Finishes(i) == ActiveRebuild(rebuilds[i]) /\ ~ActiveRebuild(rebuilds'[i])

\* the module-level watcher is open and has the change handler
WatcherListening(ws, w) == w # 0 /\ ws[w].open /\ ws[w].change = 1

\* C1: a render that made no dynamic-import call writes no entry file, builds
\* no bundle, does not enter the hydration block and returns the server markup
\* with no container and no script tag.
C1_NoImportsNoHydration ==
  [][\A d \in Docs :
       (Returns(d) /\ Len(render[d].componentsForHydration) = 0) =>
         /\ entryFiles' = entryFiles
         /\ assets' = assets
         /\ render'[d].hydration = "none"
         /\ render'[d].result.kind = "html"
         /\ render'[d].result.root = NoAttr
         /\ render'[d].result.script = NoAttr
         /\ render'[d].result.markup = serverMarkup(render[d].componentsForHydration)]_vars

C1_Witness ==
  \E d \in Docs :
    /\ render[d].pc = "returned"
    /\ render[d].content = <<>>
    /\ render[d].result = plainHtml(<<>>)
    /\ entryFiles = {}

\* C2: when mdxRendererWithTracking(D) completes, D is in the set of every
\* component its render resolved, and no later step of any render or rebuild
\* takes a document out of a set, whatever the interleaving with the render
\* of another document that imports the same components.
C2_RecordedAndKept ==
  [][/\ \A d \in Docs :
          RenderTrack(d) =>
            \A c \in Range(render[d].dependencies) :
              d \in IndexSet(componentDependencies', c)
     /\ \A c \in IndexKeys(componentDependencies) :
          IndexSet(componentDependencies, c) \subseteq IndexSet(componentDependencies', c)]_vars

C2_Witness ==
  /\ IndexSet(componentDependencies, PathCA) = {DocA, DocB}
  /\ IndexSet(componentDependencies, PathCB) = {DocA, DocB}
  /\ nRenders = 2

\* C3: the affected list of a change event is duplicate-free and holds exactly
\* the documents of the keys of the loaded mapping whose normalised path, read
\* as a list of segments, equals the changed path's, extends it or is extended
\* by it; a key that shares only a string prefix contributes nothing.
SegmentsOf(p) == SelectSeq(SplitSep(normalize(p), 1, <<>>), LAMBDA seg : seg # <<>>)

SegmentPrefix(a, b) == Len(a) <= Len(b) /\ SubSeq(b, 1, Len(a)) = a

Related(changedPath, compPath) ==
  \/ SegmentPrefix(SegmentsOf(compPath), SegmentsOf(changedPath))
  \/ SegmentPrefix(SegmentsOf(changedPath), SegmentsOf(compPath))

ExpectedAffected(mapping, changedPath) ==
  UNION {Range(mapping.obj[k].arr) :
           k \in {j \in 1..Len(mapping.obj) : Related(changedPath, mapping.obj[j].key)}}

C3_AffectedIsExactUnion ==
  \A i \in 1..Len(rebuilds) :
    rebuilds[i].pc = "tick" =>
      /\ NoDup(rebuilds[i].affectedMdxFiles)
      /\ Range(rebuilds[i].affectedMdxFiles) =
           ExpectedAffected(LoadMapping(publicJson, rootJson), rebuilds[i].changedPath)

C3_Witness ==
  /\ publicJson = [exists |-> TRUE,
                   text |-> <<<<PathCSlash, <<DocA>>>>, <<PathCa, <<DocB>>>>>>]
  /\ Len(rebuilds) = 1
  /\ rebuilds[1].changedPath = PathCA
  /\ rebuilds[1].affectedMdxFiles = <<DocA>>

\* C4: every rebuild ends by creating a watcher that is open and has the
\* change handler, on the targeted path, after a full regenerate and after a
\* failed clean or generate; while the server runs and no rebuild is in
\* progress the watcher is listening.
C4_RebuildResumesWatcher ==
  /\ [](cmd = "server" /\ lifecycle = "run" /\ ~Rebuilding
          => WatcherListening(watchers, mdxComponentWatcher))
  /\ [][\A i \in 1..Len(rebuilds) :
          Finishes(i) =>
            /\ Len(watchers') = Len(watchers) + 1
            /\ mdxComponentWatcher' = Len(watchers')
            /\ WatcherListening(watchers', mdxComponentWatcher')]_vars

C4_Witness ==
  /\ Len(rebuilds) = 2
  /\ ~Rebuilding
  /\ Len(watchers) = 3
  /\ watchers[2].ignored = ""
  /\ watchers[3] = NewWatcher(IgnoreBackslashGit)

\* C5: when a render referenced a component and the hydration block failed
\* (esbuild missing, entry write failed, build threw), mdxRenderer returns the
\* plain server markup, and no render is rejected once it entered the block.
C5_HydrationFailureIsSwallowed ==
  \A d \in Docs :
    /\ (render[d].pc = "returned"
        /\ Len(render[d].componentsForHydration) > 0
        /\ render[d].hydration \in HydrationOutcomes \ {"ok"})
         => render[d].result = plainHtml(serverMarkup(render[d].componentsForHydration))
    /\ render[d].pc = "failed" => render[d].hydration = "none"

C5_Witness ==
  \E d \in Docs :
    /\ render[d].pc = "returned"
    /\ render[d].hydration = "build_failed"
    /\ Len(render[d].componentsForHydration) = 2
    /\ render[d].result.script = NoAttr
    /\ fileHash(d) \in entryFiles

\* C6 as stated: at the end of a rebuild, clean and full regenerate were both
\* invoked exactly when the affected set was empty or a targeted regenerate
\* failed; a failure stops the targeted calls; the regenerate follows a
\* completed clean.
C6_AsStated ==
  [][\A i \in 1..Len(rebuilds) :
       LET r == rebuilds[i] IN
       /\ Finishes(i) =>
            ((r.cleanCalled /\ r.fullCalled) <=> (r.affectedMdxFiles = <<>> \/ r.failed))
       /\ (r.failed /\ ActiveRebuild(rebuilds'[i])) => rebuilds'[i].calls = r.calls
       /\ r.fullCalled => r.cleanOk]_vars

\* C6 amended: the clean is invoked exactly when the affected set was empty or
\* a targeted regenerate failed, and the full regenerate exactly when that
\* clean completed without error; a failure stops the targeted calls, and a
\* targeted pass without failure calls generate once per affected document.
C6_CleanThenFullIfCleanSucceeds ==
  [][\A i \in 1..Len(rebuilds) :
       LET r == rebuilds[i] IN
       /\ Finishes(i) =>
            /\ r.cleanCalled <=> (r.affectedMdxFiles = <<>> \/ r.failed)
            /\ r.fullCalled <=> (r.cleanCalled /\ r.cleanOk)
            /\ ~r.failed => r.calls = Len(r.affectedMdxFiles)
       /\ (r.failed /\ ActiveRebuild(rebuilds'[i])) => rebuilds'[i].calls = r.calls
       /\ r.fullCalled => r.cleanOk
       /\ r.cleanOk => r.cleanCalled]_vars

C6_Witness ==
  \E i \in 1..Len(rebuilds) :
    /\ rebuilds[i].pc = "full"
    /\ rebuilds[i].failed
    /\ rebuilds[i].calls = 1
    /\ Len(rebuilds[i].affectedMdxFiles) = 2

\* C7: after a save, the load of handleComponentChange yields a mapping with
\* the keys of the in-memory index and, per key, the same set of documents.
SameIndex(mapping, index) ==
  /\ ~mapping.isNull
  /\ {mapping.obj[i].key : i \in 1..Len(mapping.obj)} = IndexKeys(index)
  /\ \A i \in 1..Len(mapping.obj) :
       Range(mapping.obj[i].arr) = IndexSet(index, mapping.obj[i].key)

AlreadyRecorded(d) ==
  /\ render[d].dependencies # <<>>
  /\ \A c \in Range(render[d].dependencies) : d \in IndexSet(componentDependencies, c)

C9_OneRebuildAtATime ==
  /\ Cardinality({i \in 1..Len(rebuilds) : ActiveRebuild(rebuilds[i])}) <= 1
  /\ Rebuilding => OpenListeners = {}

C9_Witness ==
  /\ Rebuilding
  /\ missed
  /\ \E i \in 1..Len(rebuilds) : rebuilds[i].pc \in {"targeted", "full"}

\* C10 as stated: a change that occurs while a rebuild is in progress is
\* followed, while the server keeps running, by a handler invocation started
\* after the change, so that some rebuild covers it.
C10_AsStated ==
  (missed /\ lifecycle = "run") ~> (~missed \/ lifecycle = "exit")


\* the (component, document) pairs of a loaded mapping
PairsOf(mapping) ==
  UNION {{<<mapping.obj[i].key, mapping.obj[i].arr[j]>> : j \in 1..Len(mapping.obj[i].arr)} :
           i \in 1..Len(mapping.obj)}

\* C11 as stated: when the copy of the index in the public directory goes away,
\* the load of handleComponentChange still obtains every pair it obtained
\* before, from the copy a save mirrored to the project root.
C11_AsStated ==
  [][(publicJson.exists /\ ~publicJson'.exists) =>
       PairsOf(LoadMapping(publicJson, rootJson))
         \subseteq PairsOf(LoadMapping(publicJson', rootJson'))]_vars

\* C12 as stated: a pair an earlier process saved stays in the persisted index
\* while the new process renders and records documents other than its own.
C12_AsStated ==
  (/\ render[DocA].pc = "idle"
   /\ \A c \in IndexKeys(componentDependencies) : DocA \notin IndexSet(componentDependencies, c))
    => <<PathCA, DocA>> \in PairsOf(LoadMapping(publicJson, rootJson))


\* C13 as stated: whatever the index file holds, handleComponentChange does not
\* throw and schedules the rebuild, and with no usable file the affected list
\* is empty.
C13_AsStated ==
  \A i \in 1..Len(rebuilds) :
    /\ rebuilds[i].pc # "threw"
    /\ LoadMapping(publicJson, rootJson).isNull => rebuilds[i].affectedMdxFiles = <<>>


\* C14: in a run whose command is not 'server' (generate, clean, no env) no
\* watcher is ever created, in after_init or later, whatever is rendered.
C14_WatcherOnlyInServer ==
  cmd # "server" => (watchers = <<>> /\ mdxComponentWatcher = 0 /\ rebuilds = <<>>)

C14_Witness ==
  /\ cmd = "generate"
  /\ lifecycle = "exit"
  /\ nRenders = 2
  /\ Len(componentDependencies) = 2
  /\ watchers = <<>>

\* C15 as stated: once the exit hook has fired no watcher is open, also when it
\* fired while a rebuild was in progress.
C15_AsStated ==
  lifecycle = "exit" => \A w \in 1..Len(watchers) : ~watchers[w].open


\* C16 as stated: when a change event begins a rebuild, no entry file written
\* by an earlier render exists once the handler has cleaned up.
C16_AsStated ==
  [][Len(rebuilds') > Len(rebuilds) => entryFiles' = {}]_vars

\* C17: a render whose compilation, evaluation or server rendering throws
\* rejects with an error whose message holds the document's path, and neither
\* the failure nor the rejection changes the in-memory index or the index file.
C17_FailedRenderIsConfined ==
  [][\A d \in Docs :
       /\ (render[d].pc # "failed" /\ render'[d].pc = "failed") =>
            /\ render'[d].result.kind = "error"
            /\ d \in Range(render'[d].result.message)
            /\ UNCHANGED <<componentDependencies, publicJson>>
       /\ (render[d].pc = "failed" /\ render'[d].pc # "failed") =>
            /\ render'[d] = IdleRender
            /\ UNCHANGED <<componentDependencies, publicJson>>]_vars

C17_Witness ==
  \E d \in Docs :
    /\ render[d].pc = "failed"
    /\ Len(render[d].dependencies) = 2
    /\ render[d].result = renderError(d)
    /\ d \notin IndexSet(componentDependencies, PathCA)

LineEnds(s) == {k \in 1..Len(s) : s[k] = Nl}

LineBefore(s, k) ==
  LET prev == {e \in LineEnds(s) : e < k}
  IN SubSeq(s, (IF prev = {} THEN 0 ELSE Max(prev)) + 1, k - 1)

LineNo(s, k) == Cardinality({e \in LineEnds(s) : e <= k})

IsDelimiterLine(l) ==
  Len(l) >= 3 /\ SubSeq(l, 1, 3) = Dashes /\ \A i \in 4..Len(l) : l[i] = " "

IsBlankLine(l) == \A i \in 1..Len(l) : l[i] = " "

HasOpening(s) ==
  \E k \in LineEnds(s) : LineNo(s, k) = 1 /\ IsDelimiterLine(LineBefore(s, k))

ClosingLines(s) ==
  {k \in LineEnds(s) : LineNo(s, k) >= 3 /\ IsDelimiterLine(LineBefore(s, k))}

SecondLineBlank(s) ==
  \E k \in LineEnds(s) : LineNo(s, k) = 2 /\ IsBlankLine(LineBefore(s, k))

AfterClosing(s) == SubSeq(s, Min(ClosingLines(s)) + 1, Len(s))

AfterClosingAndBlanks(s) ==
  LET c == Min(ClosingLines(s))
      f == Max({k \in LineEnds(s) : k >= c /\ AllSpace(s, c + 1, k)})
  IN SubSeq(s, f + 1, Len(s))

\* C19 as stated: a text that starts with a '---' line, a block and a closing
\* '---' line is handed to the compiler as exactly what follows the closing
\* line; any other text is handed over unchanged.
C19_AsStated ==
  \A d \in Docs :
    render[d].pc = "eval" =>
      LET t == render[d].text IN
      IF HasOpening(t) /\ ClosingLines(t) # {}
        THEN render[d].source = AfterClosing(t)
        ELSE render[d].source = t

\* C19 amended: when the text starts with a '---' line, its second line is not
\* blank and a newline-terminated '---' line follows at line three or later,
\* the compiler gets what follows the first such closing line and the blank
\* lines directly after it; a text without an opening '---' line or without
\* such a closing line is handed over unchanged.
C19_StripsThroughBlankLines ==
  \A d \in Docs :
    render[d].pc = "eval" =>
      LET t == render[d].text IN
      /\ (HasOpening(t) /\ ClosingLines(t) # {} /\ ~SecondLineBlank(t))
           => render[d].source = AfterClosingAndBlanks(t)
      /\ ~(HasOpening(t) /\ ClosingLines(t) # {}) => render[d].source = t

C19_Witness ==
  /\ render[DocA].pc = "eval"
  /\ render[DocA].text = Dashes \o <<Nl, "a", Nl>> \o Dashes \o <<Nl, Nl, "a">>
  /\ render[DocA].source = <<"a">>


C21_WatcherClosedThroughoutRebuild ==
  /\ [](\A i \in 1..Len(rebuilds) :
          ActiveRebuild(rebuilds[i]) => \A w \in 1..Len(watchers) : ~watchers[w].open)
  /\ [][Len(rebuilds') > Len(rebuilds) =>
          /\ \A w \in 1..Len(watchers') : ~watchers'[w].open
          /\ LET r == rebuilds'[Len(rebuilds')] IN
               r.calls = 0 /\ ~r.cleanCalled /\ ~r.fullCalled]_vars
  /\ [][\A i \in 1..Len(rebuilds) :
          (ActiveRebuild(rebuilds[i]) /\ Len(watchers') > Len(watchers)) =>
            /\ Finishes(i)
            /\ rebuilds[i].pc \in {"targeted", "clean", "full"}
            /\ rebuilds[i].pc = "targeted" =>
                 rebuilds[i].calls = Len(rebuilds[i].affectedMdxFiles)]_vars

C21_Witness ==
  /\ mdxComponentWatcher = 1
  /\ watchers = <<ClosedWatcher>>
  /\ \E i \in 1..Len(rebuilds) :
       /\ rebuilds[i].pc = "full"
       /\ rebuilds[i].failed
       /\ rebuilds[i].calls = 2

\* C22: a rebuild that re-bundles, after a successful targeted pass or after
\* a successful full regenerate, calls bundleEntryByHash with exactly the
\* hashes of its affected documents, and the bundles it adds are those of
\* these hashes whose entry exists; a rebuild whose affected set is empty, and
\* a rebuild that ends in the catch branch, makes no such call and adds no
\* bundle.
C22_RebundlesAffectedHashes ==
  [][\A i \in 1..Len(rebuilds) :
       Finishes(i) =>
         LET affected == rebuilds[i].affectedMdxFiles
             expected == {fileHash(f) : f \in Range(affected)}
             passed == rebuilds'[i].hashes
         IN /\ passed \in {expected, {}}
            /\ rebuilds[i].pc = "targeted" => passed = expected
            /\ rebuilds[i].pc = "clean" => passed = {}
            /\ affected = <<>> => passed = {}
            /\ (assets' \ assets) \subseteq (passed \cap entryFiles)
            /\ assets \subseteq assets']_vars

C22_Witness ==
  /\ Len(rebuilds) = 2
  /\ rebuilds[1].pc = "done" /\ rebuilds[1].hashes = {}
  /\ rebuilds[2].pc = "done" /\ rebuilds[2].hashes = {fileHash(DocA), fileHash(DocB)}
  /\ assets = {fileHash(DocB)}
  /\ entryFiles = {fileHash(DocA), fileHash(DocB)}

\* dynamicImport is called for document d in this step
Imports(d) ==
  /\ render[d].pc = "eval"
  /\ Len(render'[d].componentsForHydration) > Len(render[d].componentsForHydration)

\* the specifier of the call made in this step
ImportedSpecifier(d) == render[d].content[Len(render[d].componentsForHydration) + 1]

\* C23: every dynamicImport call, of a specifier that resolves to a path or
\* of one that does not, returns to the evaluation (the render stays in its
\* evaluation and is not rejected), appends exactly one entry to the list of
\* references, whose id is mdx-cmp-<hash of the document>-<n> with n the
\* 1-based position of the call, and whose spec is the resolved path or the
\* raw specifier; the ids of a render are numbered 1, 2, ... in call order.
C23_ResolverAlwaysReturnsPlaceholder ==
  /\ [](\A d \in Docs : \A k \in 1..Len(render[d].componentsForHydration) :
          render[d].componentsForHydration[k].id = <<"mdx-cmp", fileHash(d), k>>)
  /\ [][\A d \in Docs :
          Imports(d) =>
            LET before == render[d].componentsForHydration
                after == render'[d].componentsForHydration
                asString == ImportedSpecifier(d)
            IN /\ render'[d].pc = "eval"
               /\ Len(after) = Len(before) + 1
               /\ SubSeq(after, 1, Len(before)) = before
               /\ after[Len(after)].id = <<"mdx-cmp", fileHash(d), Len(before) + 1>>
               /\ after[Len(after)].spec =
                    (CASE asString = SpecFileUrl -> PathCA
                       [] asString = SpecRelative -> PathCB
                       [] OTHER -> <<asString>>)]_vars

C23_Witness ==
  /\ render[DocA].pc = "eval"
  /\ render[DocA].componentsForHydration =
       <<[id |-> <<"mdx-cmp", "74e13213", 1>>, spec |-> PathCA],
         [id |-> <<"mdx-cmp", "74e13213", 2>>, spec |-> PathCB]>>
  /\ render[DocB].pc = "eval"
  /\ render[DocB].componentsForHydration =
       <<[id |-> <<"mdx-cmp", "8bc8f3da", 1>>, spec |-> <<SpecRemote>>]>>

\* C24 as stated: a specifier for which no filesystem path is found is added
\* as-is to the dependency set of the render, and is a key of the index once
\* the render has been tracked.
C24_AsStated ==
  [][\A d \in Docs :
       /\ (Imports(d) /\ fsPathOf(ImportedSpecifier(d)) = NoPath) =>
            <<ImportedSpecifier(d)>> \in Range(render'[d].dependencies)
       /\ RenderTrack(d) =>
            \A k \in 1..Len(render[d].componentsForHydration) :
              render[d].componentsForHydration[k].spec \in IndexKeys(componentDependencies')]_vars

\* C24: a specifier for which no filesystem path is found is recorded as-is
\* in the list of references of the render only: the call leaves the
\* dependency set as it was, the render goes on, and neither a dependency set
\* nor the index ever holds a raw specifier; a render all of whose specifiers
\* are of this kind leaves the index and its file untouched.
C24_UnresolvedSpecifierIsNotADependency ==
  /\ [](\A s \in Specifiers :
          /\ <<s>> \notin IndexKeys(componentDependencies)
          /\ \A d \in Docs : <<s>> \notin Range(render[d].dependencies))
  /\ [][\A d \in Docs :
          /\ (Imports(d) /\ fsPathOf(ImportedSpecifier(d)) = NoPath) =>
               /\ render'[d].dependencies = render[d].dependencies
               /\ render'[d].componentsForHydration[Len(render'[d].componentsForHydration)].spec
                    = <<ImportedSpecifier(d)>>
               /\ render'[d].pc = "eval"
          /\ (RenderTrack(d) /\ \A k \in 1..Len(render[d].content) :
                                   fsPathOf(render[d].content[k]) = NoPath) =>
               UNCHANGED <<componentDependencies, publicJson>>]_vars

C24_Witness ==
  \E d \in Docs :
    /\ render[d].pc = "returned"
    /\ render[d].content = <<SpecRemote>>
    /\ render[d].componentsForHydration[1].spec = <<SpecRemote>>
    /\ render[d].dependencies = <<>>
    /\ render[d].result.kind = "html"

Idle ==
  /\ cmd = "server"
  /\ lifecycle = "run"
  /\ ~Rebuilding
  /\ WatcherListening(watchers, mdxComponentWatcher)

\* C26 as stated: every change, add and unlink event of a file below the
\* components directory that chokidar reports while the coordinator is idle
\* runs handleComponentChange for that path, which starts a rebuild.
C26_AsStated ==
  [][\A event \in Events, p \in ChangedPaths :
       (Idle /\ Len(rebuilds) < MaxChanges /\ FsEvent(event, p)) =>
         /\ Len(rebuilds') = Len(rebuilds) + 1
         /\ rebuilds'[Len(rebuilds')].changedPath = p]_vars

\* C27 as stated: every open watcher ignores the paths the watcher of
\* after_init ignores: paths in node_modules and paths in .git.
C27_AsStated ==
  \A w \in 1..Len(watchers) :
    watchers[w].open =>
      \A p \in {PathCA, PathCB, GitPath, PackagePath} :
        IgnoredBy(watchers[w].ignored, p) = IgnoredBy(IgnoreDotGit, p)

\* handleComponentChange runs in this step and schedules its callback
Starts ==
  /\ Len(rebuilds') = Len(rebuilds) + 1
  /\ rebuilds'[Len(rebuilds')].pc = "tick"

\* C28 as stated: no step removes a key of the in-memory index or a document
\* of a key's set, and every document the in-memory index holds for the
\* changed component is in the affected set the handler computes for the
\* change.
C28_AsStated ==
  [][/\ IndexKeys(componentDependencies) \subseteq IndexKeys(componentDependencies')
     /\ \A c \in IndexKeys(componentDependencies) :
          IndexSet(componentDependencies, c) \subseteq IndexSet(componentDependencies', c)
     /\ Starts =>
          IndexSet(componentDependencies, rebuilds'[Len(rebuilds')].changedPath)
            \subseteq Range(rebuilds'[Len(rebuilds')].affectedMdxFiles)]_vars

\* C29: at most one watcher is open at any time, it is the one the
\* module-level variable refers to, and no watcher has more than one change
\* handler; a step that creates a watcher creates exactly one, open and with
\* one change handler, and leaves every earlier watcher closed.
C29_AtMostOneWatcher ==
  /\ [](/\ Cardinality({w \in 1..Len(watchers) : watchers[w].open}) <= 1
        /\ \A w \in 1..Len(watchers) :
             /\ watchers[w].change <= 1
             /\ watchers[w].open => w = mdxComponentWatcher)
  /\ [][Len(watchers') > Len(watchers) =>
          /\ Len(watchers') = Len(watchers) + 1
          /\ \A w \in 1..Len(watchers) : watchers'[w] = ClosedWatcher
          /\ watchers'[Len(watchers')].open
          /\ watchers'[Len(watchers')].change = 1]_vars

C29_Witness ==
  /\ Len(rebuilds) = 2
  /\ Len(watchers) = 3
  /\ {w \in 1..Len(watchers) : watchers[w].open} = {3}
  /\ watchers[3] = NewWatcher(IgnoreDotGit)
  /\ mdxComponentWatcher = 3

====
